---- MODULE Spec2Model ----
(***************************************************************************)
(* clunk: the Object (object.cpp), its use of the audio lock, and the SSE  *)
(* FFT context (sse_fft_context.h).                                        *)
(*                                                                         *)
(* Spec      the Object's operations, each one a critical section of the   *)
(*           audio lock and therefore one atomic step, together with the   *)
(*           mixer callback.  Every Source handed to play() is a new one   *)
(*           (play takes ownership of the pointer).                        *)
(* SpecAlias Spec plus a host that hands a Source it already handed over   *)
(*           to play() again.                                              *)
(* SpecLive  Spec with a callback that keeps running (weak fairness of     *)
(*           Process).                                                     *)
(* SpecLock  the operations as sequences of lock operations, accesses and  *)
(*           calls, run by the host's thread and the callback's thread.    *)
(* SpecFFT   fft_context<BITS, float>::scramble and the base case of the   *)
(*           SSE Danielson-Lanczos recursion, on inputs drawn in Init.     *)
(***************************************************************************)
EXTENDS Integers, Sequences, FiniteSets, TLC

\* ------------------------------------------------------------------------
\* Bounds
\* ------------------------------------------------------------------------
MaxSources == 3      \* Source objects the host constructs in one run
MaxFade == 2         \* longest fade-out, in callback block periods
MaxCalls == 3        \* API calls the host makes in one run
MaxBits == 4         \* largest BITS of an fft_context

Names == {"a", "b"}              \* keys of named_sources
Indices == {0}                   \* keys of indexed_sources
Sources == 1..MaxSources         \* identities of Source objects
Fades == 0..MaxFade              \* the fadeout argument of fade_out / cancel

NoName == "-"                    \* last.name of a call without a name

VARIABLES
    named_sources,      \* Object::named_sources: name -> the sources of its range
    indexed_sources,    \* Object::indexed_sources: index -> the sources of its range
    src,                \* each Source object: st, loop, fadeout, fadeout_total
    dead,               \* Object::dead
    in_context,         \* the Object is in Context::objects (and not yet deleted)
    halted,             \* the process died of a use of a destroyed Source
    aliased,            \* history: some Source was handed to play() twice
    calls,              \* history: API calls made so far
    last                \* history: the operation that made the last step

VARIABLES
    lock_recursive,     \* the audio lock lets the thread that holds it take it again
    lock,               \* the audio lock: owner, depth (times the owner took it)
    stack,              \* each thread's call stack: frames [op, pc]
    access              \* history: the last read or write of guarded state

objVars == <<named_sources, indexed_sources, src, halted, aliased, calls, last>>

VARIABLES
    fft,                \* fft_context<BITS, float>: pc, bits, input (history), data, oob
    sse                 \* sse_danielson_lanczos<1, T>::apply<SIGN>: pc, sign, the
                        \* vectors *data_re and *data_im, and their values at the call

lockVars == <<lock_recursive, lock, stack, access>>

fftVars == <<fft, sse>>

vars == <<objVars, dead, in_context, lockVars, fftVars>>

\* ------------------------------------------------------------------------
\* Source (source.h / source.cpp are not part of the sources at hand)
\* ------------------------------------------------------------------------
\* A Source that was not constructed yet.
Unborn == [st |-> "unborn", loop |-> FALSE, fadeout |-> 0, fadeout_total |-> 0]

\* new Source(sample, loop): playing, no fade-out pending.
NewSource(loop) == [st |-> "alive", loop |-> loop, fadeout |-> 0, fadeout_total |-> 0]

\* Source::fade_out(sec): a fade-out of sec starts now.
Source_fade_out(s, fadeout) == [s EXCEPT !.fadeout = fadeout, !.fadeout_total = fadeout]

\* delete source: the object is gone, and its fields with it.
Destroy(s) == [st |-> "destroyed", loop |-> FALSE, fadeout |-> 0, fadeout_total |-> 0]

\* The Source is in its FadeOut state.
Fading(s) == s.fadeout_total > 0

\* ------------------------------------------------------------------------
\* The multimaps: a key's equal_range is a sequence in iteration order;
\* insert() puts a new element at the end of its key's range.
\* ------------------------------------------------------------------------
Range(seq) == {seq[i] : i \in 1..Len(seq)}

Stored(sources) == UNION {Range(sources[k]) : k \in DOMAIN sources}

AllStored == Stored(named_sources) \cup Stored(indexed_sources)

HasDup(seq) == \E i, j \in 1..Len(seq) : i # j /\ seq[i] = seq[j]

RECURSIVE Flatten(_, _)
Flatten(sources, keys) ==
    IF keys = {} THEN <<>>
    ELSE LET k == CHOOSE x \in keys : TRUE
         IN  sources[k] \o Flatten(sources, keys \ {k})

\* Every element of both maps, indexed_sources first (the order of cancel_all).
Everything == Flatten(indexed_sources, Indices) \o Flatten(named_sources, Names)

\* A dereference of a destroyed Source, or a second delete of one.
Dangling(seq) == \E i \in 1..Len(seq) : src[seq[i]].st = "destroyed"

\* ------------------------------------------------------------------------
\* Object's operations on one multimap (the string and the int overloads
\* have the same body)
\* ------------------------------------------------------------------------
\* Object::play: sources.insert(value_type(key, source))
play(sources, key, source) == [sources EXCEPT ![key] = Append(@, source)]

\* Object::playing: sources.find(key) != sources.end()
playing(sources, key) == sources[key] # <<>>

\* Object::fade_out: every source of the range fades out.
RECURSIVE fade_out(_, _, _, _)
fade_out(S, seq, i, fadeout) ==
    IF i > Len(seq) THEN S
    ELSE fade_out([S EXCEPT ![seq[i]] = Source_fade_out(@, fadeout)], seq, i + 1, fadeout)

\* cancel with the erase of one element stepping over the next one.
RECURSIVE cancel_skip(_, _, _, _, _)
cancel_skip(S, seq, i, fadeout, kept) ==
    IF i > Len(seq) THEN [S |-> S, kept |-> kept]
    ELSE IF fadeout = 0
         THEN cancel_skip([S EXCEPT ![seq[i]] = Destroy(@)], seq, i + 2, fadeout,
                          IF i + 1 <= Len(seq) THEN Append(kept, seq[i + 1]) ELSE kept)
         ELSE IF S[seq[i]].loop
              THEN cancel_skip([S EXCEPT ![seq[i]] = Source_fade_out(@, fadeout)],
                               seq, i + 1, fadeout, Append(kept, seq[i]))
              ELSE cancel_skip(S, seq, i + 1, fadeout, Append(kept, seq[i]))

\* cancel that fades every source of the range out, as fade_out does.
RECURSIVE cancel_fade_all(_, _, _, _, _)
cancel_fade_all(S, seq, i, fadeout, kept) ==
    IF i > Len(seq) THEN [S |-> S, kept |-> kept]
    ELSE IF fadeout = 0
         THEN cancel_fade_all([S EXCEPT ![seq[i]] = Destroy(@)], seq, i + 1, fadeout, kept)
         ELSE cancel_fade_all([S EXCEPT ![seq[i]] = Source_fade_out(@, fadeout)],
                              seq, i + 1, fadeout, Append(kept, seq[i]))

\* cancel with the test of the loop flag negated.
RECURSIVE cancel_not_loop(_, _, _, _, _)
cancel_not_loop(S, seq, i, fadeout, kept) ==
    IF i > Len(seq) THEN [S |-> S, kept |-> kept]
    ELSE IF fadeout = 0
         THEN cancel_not_loop([S EXCEPT ![seq[i]] = Destroy(@)], seq, i + 1, fadeout, kept)
         ELSE IF ~S[seq[i]].loop
              THEN cancel_not_loop([S EXCEPT ![seq[i]] = Source_fade_out(@, fadeout)],
                                   seq, i + 1, fadeout, Append(kept, seq[i]))
              ELSE cancel_not_loop(S, seq, i + 1, fadeout, Append(kept, seq[i]))

\* Object::cancel, the loop over the key's range from its i-th element:
\* [S: the Source objects, kept: the elements left in the range].
RECURSIVE cancel(_, _, _, _, _)
cancel(S, seq, i, fadeout, kept) ==
    IF i > Len(seq) THEN [S |-> S, kept |-> kept]
    ELSE IF fadeout = 0
         THEN cancel([S EXCEPT ![seq[i]] = Destroy(@)], seq, i + 1, fadeout, kept)
         ELSE IF S[seq[i]].loop
              THEN cancel([S EXCEPT ![seq[i]] = Source_fade_out(@, fadeout)],
                          seq, i + 1, fadeout, Append(kept, seq[i]))
              ELSE cancel(S, seq, i + 1, fadeout, Append(kept, seq[i]))

\* Object::get_loop: some source of the range loops.
get_loop(S, seq) == \E i \in 1..Len(seq) : S[seq[i]].loop

\* set_loop that gives every source of the range the flag.
RECURSIVE set_loop_every(_, _, _, _)
set_loop_every(S, seq, i, loop) ==
    IF i > Len(seq) THEN S
    ELSE set_loop_every([S EXCEPT ![seq[i]].loop = loop], seq, i + 1, loop)

\* Object::set_loop, the loop over the key's range from its i-th element.
RECURSIVE set_loop(_, _, _, _)
set_loop(S, seq, i, loop) ==
    IF i > Len(seq) THEN S
    ELSE set_loop([S EXCEPT ![seq[i]].loop = IF i = 1 THEN loop ELSE FALSE],
                  seq, i + 1, loop)

\* _cancel_all that fades every source out, looping or not.
RECURSIVE _cancel_all_every(_, _, _, _, _)
_cancel_all_every(S, seq, i, force, fadeout) ==
    IF i > Len(seq) THEN S
    ELSE IF force
         THEN _cancel_all_every([S EXCEPT ![seq[i]] = Destroy(@)], seq, i + 1, force, fadeout)
         ELSE _cancel_all_every([S EXCEPT ![seq[i]] = Source_fade_out(@, fadeout)],
                                seq, i + 1, force, fadeout)

\* _cancel_all, the loop over all elements of one map (seq: the map's elements
\* in iteration order); sources.clear() is done by the caller's map update.
RECURSIVE _cancel_all(_, _, _, _, _)
_cancel_all(S, seq, i, force, fadeout) ==
    IF i > Len(seq) THEN S
    ELSE IF force
         THEN _cancel_all([S EXCEPT ![seq[i]] = Destroy(@)], seq, i + 1, force, fadeout)
         ELSE IF S[seq[i]].loop
              THEN _cancel_all([S EXCEPT ![seq[i]] = Source_fade_out(@, fadeout)],
                               seq, i + 1, force, fadeout)
              ELSE _cancel_all(S, seq, i + 1, force, fadeout)

\* _cancel_all without its sources.clear().
NotCleared(sources, force) == sources

\* if (force) sources.clear()
Cleared(sources, force) == IF force THEN [k \in DOMAIN sources |-> <<>>] ELSE sources

\* Object::cancel_all(force, fadeout): indexed_sources, then named_sources.
cancel_all(S, force, fadeout) ==
    _cancel_all(_cancel_all(S, Flatten(indexed_sources, Indices), 1, force, fadeout),
                Flatten(named_sources, Names), 1, force, fadeout)

\* The default arguments of cancel_all (object.h): cancel_all() fades out.
cancel_all_force == FALSE
cancel_all_fadeout == 1

\* ------------------------------------------------------------------------
\* Initial state: Object::Object(context), no Source constructed yet.
\* ------------------------------------------------------------------------
Call(op, map, name, index, flag, fadeout) ==
    [op |-> op, map |-> map, name |-> name, index |-> index, flag |-> flag,
     fadeout |-> fadeout]

InitObject ==
    /\ named_sources = [k \in Names |-> <<>>]
    /\ indexed_sources = [k \in Indices |-> <<>>]
    /\ src = [s \in Sources |-> Unborn]
    /\ dead = FALSE
    /\ in_context = TRUE
    /\ halted = FALSE
    /\ aliased = FALSE
    /\ calls = 0
    /\ last = Call("Object", "-", NoName, -1, FALSE, 0)

\* No thread is inside a call and nobody holds the audio lock.
InitLock ==
    /\ lock = [owner |-> "none", depth |-> 0]
    /\ stack = [t \in {"api", "audio"} |-> <<>>]
    /\ access = [thread |-> "none", kind |-> "none", field |-> "none", locked |-> TRUE]

\* No transform is under way.
NoFFT == [pc |-> "idle", bits |-> 0, input |-> <<>>, data |-> <<>>, oob |-> FALSE]
NoSSE == [pc |-> "idle", sign |-> 1, re_in |-> <<>>, im_in |-> <<>>, re |-> <<>>, im |-> <<>>]

InitNoFFT == fft = NoFFT /\ sse = NoSSE

\* The operations are taken as calls that return: the AudioLocker of a call
\* made inside another call's critical section gets the lock.
Init == InitObject /\ InitLock /\ lock_recursive = TRUE /\ InitNoFFT

\* The host may call the Object: it exists and the process runs.
Callable == in_context /\ ~halted

\* One more API call of the host.
Count == calls < MaxCalls /\ calls' = calls + 1

\* The outcome of a step that used the sources of seq: using a destroyed
\* Source is undefined; the process goes on with the memory as it was, or dies.
Use(seq) ==
    IF Dangling(seq) THEN halted' \in BOOLEAN ELSE halted' = halted

\* delete of each source of seq: a second delete of one is undefined too.
UseDelete(seq) ==
    IF Dangling(seq) \/ HasDup(seq) THEN halted' \in BOOLEAN ELSE halted' = halted

\* The Source the host constructs next.
Fresh == CHOOSE s \in Sources :
             /\ src[s].st = "unborn"
             /\ \A t \in Sources : src[t].st = "unborn" => s <= t

\* ------------------------------------------------------------------------
\* The operations
\* ------------------------------------------------------------------------
\* object->play(name, new Source(sample, loop))
PlayNamed(name, loop) ==
    /\ Callable /\ Count
    /\ \E s \in Sources : src[s].st = "unborn"
    /\ src' = [src EXCEPT ![Fresh] = NewSource(loop)]
    /\ named_sources' = play(named_sources, name, Fresh)
    /\ last' = Call("play", "named", name, -1, loop, 0)
    /\ UNCHANGED <<indexed_sources, dead, in_context, halted, aliased, lockVars, fftVars>>

\* object->play(index, new Source(sample, loop))
PlayIndexed(index, loop) ==
    /\ Callable /\ Count
    /\ \E s \in Sources : src[s].st = "unborn"
    /\ src' = [src EXCEPT ![Fresh] = NewSource(loop)]
    /\ indexed_sources' = play(indexed_sources, index, Fresh)
    /\ last' = Call("play", "indexed", NoName, index, loop, 0)
    /\ UNCHANGED <<named_sources, dead, in_context, halted, aliased, lockVars, fftVars>>

\* object->play(name, source) with a Source the Object holds already
PlayNamedAgain(name, source) ==
    /\ Callable /\ Count
    /\ source \in AllStored
    /\ src[source].st = "alive"
    /\ named_sources' = play(named_sources, name, source)
    /\ aliased' = TRUE
    /\ last' = Call("play", "named", name, -1, src[source].loop, 0)
    /\ UNCHANGED <<indexed_sources, src, dead, in_context, halted, lockVars, fftVars>>

\* object->play(index, source) with a Source the Object holds already
PlayIndexedAgain(index, source) ==
    /\ Callable /\ Count
    /\ source \in AllStored
    /\ src[source].st = "alive"
    /\ indexed_sources' = play(indexed_sources, index, source)
    /\ aliased' = TRUE
    /\ last' = Call("play", "indexed", NoName, index, src[source].loop, 0)
    /\ UNCHANGED <<named_sources, src, dead, in_context, halted, lockVars, fftVars>>

FadeOutNamed(name, fadeout) ==
    /\ Callable /\ Count
    /\ src' = fade_out(src, named_sources[name], 1, fadeout)
    /\ Use(named_sources[name])
    /\ last' = Call("fade_out", "named", name, -1, FALSE, fadeout)
    /\ UNCHANGED <<named_sources, indexed_sources, dead, in_context, aliased, lockVars, fftVars>>

FadeOutIndexed(index, fadeout) ==
    /\ Callable /\ Count
    /\ src' = fade_out(src, indexed_sources[index], 1, fadeout)
    /\ Use(indexed_sources[index])
    /\ last' = Call("fade_out", "indexed", NoName, index, FALSE, fadeout)
    /\ UNCHANGED <<named_sources, indexed_sources, dead, in_context, aliased, lockVars, fftVars>>

CancelNamed(name, fadeout) ==
    /\ Callable /\ Count
    /\ LET r == cancel(src, named_sources[name], 1, fadeout, <<>>)
       IN  /\ src' = r.S
           /\ named_sources' = [named_sources EXCEPT ![name] = r.kept]
    /\ IF fadeout = 0 THEN UseDelete(named_sources[name]) ELSE Use(named_sources[name])
    /\ last' = Call("cancel", "named", name, -1, FALSE, fadeout)
    /\ UNCHANGED <<indexed_sources, dead, in_context, aliased, lockVars, fftVars>>

CancelIndexed(index, fadeout) ==
    /\ Callable /\ Count
    /\ LET r == cancel(src, indexed_sources[index], 1, fadeout, <<>>)
       IN  /\ src' = r.S
           /\ indexed_sources' = [indexed_sources EXCEPT ![index] = r.kept]
    /\ IF fadeout = 0 THEN UseDelete(indexed_sources[index]) ELSE Use(indexed_sources[index])
    /\ last' = Call("cancel", "indexed", NoName, index, FALSE, fadeout)
    /\ UNCHANGED <<named_sources, dead, in_context, aliased, lockVars, fftVars>>

SetLoopNamed(name, loop) ==
    /\ Callable /\ Count
    /\ src' = set_loop(src, named_sources[name], 1, loop)
    /\ Use(named_sources[name])
    /\ last' = Call("set_loop", "named", name, -1, loop, 0)
    /\ UNCHANGED <<named_sources, indexed_sources, dead, in_context, aliased, lockVars, fftVars>>

SetLoopIndexed(index, loop) ==
    /\ Callable /\ Count
    /\ src' = set_loop(src, indexed_sources[index], 1, loop)
    /\ Use(indexed_sources[index])
    /\ last' = Call("set_loop", "indexed", NoName, index, loop, 0)
    /\ UNCHANGED <<named_sources, indexed_sources, dead, in_context, aliased, lockVars, fftVars>>

CancelAll(force, fadeout) ==
    /\ Callable /\ Count
    /\ src' = cancel_all(src, force, fadeout)
    /\ named_sources' = Cleared(named_sources, force)
    /\ indexed_sources' = Cleared(indexed_sources, force)
    /\ IF force THEN UseDelete(Everything) ELSE Use(Everything)
    /\ last' = Call("cancel_all", "-", NoName, -1, force, fadeout)
    /\ UNCHANGED <<dead, in_context, aliased, lockVars, fftVars>>

\* Object::autodelete: cancel_all(); dead = true;
autodelete ==
    /\ Callable /\ Count
    /\ src' = cancel_all(src, cancel_all_force, cancel_all_fadeout)
    /\ named_sources' = Cleared(named_sources, cancel_all_force)
    /\ indexed_sources' = Cleared(indexed_sources, cancel_all_force)
    /\ IF cancel_all_force THEN UseDelete(Everything) ELSE Use(Everything)
    /\ dead' = TRUE
    /\ last' = Call("autodelete", "-", NoName, -1, FALSE, 0)
    /\ UNCHANGED <<in_context, aliased, lockVars, fftVars>>

\* ------------------------------------------------------------------------
\* The mixer callback (Context::process; context.cpp and source.cpp are not
\* part of the sources at hand: modelled from the specification, 4.4 and 4.6)
\* ------------------------------------------------------------------------
\* The sources that can reach their end of sample in a block: the ones that
\* do not loop.
Finishable == {s \in AllStored : ~src[s].loop}

\* The source's fade-out ends in this block.
FadedOut(s) == Fading(src[s]) /\ src[s].fadeout <= 1

Without(sources, gone) ==
    [k \in DOMAIN sources |-> SelectSeq(sources[k], LAMBDA s : s \notin gone)]

\* One callback (last.flag: the fade-out of a looping source ended in it):
\* every source is mixed and its fade advances by one block; a
\* source that reached Dead (end of a non-looping sample: finished; end of
\* its fade-out) is removed and destroyed; a dead Object without sources is
\* reaped.
Process(finished) ==
    /\ in_context /\ ~halted
    /\ finished \subseteq Finishable
    /\ LET gone == finished \cup {s \in AllStored : FadedOut(s)}
       IN  /\ src' = [s \in Sources |->
                       IF s \in gone THEN Destroy(src[s])
                       ELSE IF s \in AllStored /\ Fading(src[s])
                            THEN [src[s] EXCEPT !.fadeout = @ - 1]
                            ELSE src[s]]
           /\ named_sources' = Without(named_sources, gone)
           /\ indexed_sources' = Without(indexed_sources, gone)
           /\ in_context' = ~(dead /\ AllStored \subseteq gone)
           /\ IF Dangling(Everything) \/ \E i, j \in 1..Len(Everything) :
                    i # j /\ Everything[i] = Everything[j] /\ Everything[i] \in gone
              THEN halted' \in BOOLEAN ELSE halted' = halted
    /\ last' = Call("process", "-", NoName, -1,
                    \E s \in AllStored : FadedOut(s) /\ src[s].loop, 0)
    /\ UNCHANGED <<dead, aliased, calls, lockVars, fftVars>>

Next ==
    \/ \E name \in Names, loop \in BOOLEAN : PlayNamed(name, loop)
    \/ \E index \in Indices, loop \in BOOLEAN : PlayIndexed(index, loop)
    \/ \E name \in Names, fadeout \in Fades \ {0} : FadeOutNamed(name, fadeout)
    \/ \E index \in Indices, fadeout \in Fades \ {0} : FadeOutIndexed(index, fadeout)
    \/ \E name \in Names, fadeout \in Fades : CancelNamed(name, fadeout)
    \/ \E index \in Indices, fadeout \in Fades : CancelIndexed(index, fadeout)
    \/ \E name \in Names, loop \in BOOLEAN : SetLoopNamed(name, loop)
    \/ \E index \in Indices, loop \in BOOLEAN : SetLoopIndexed(index, loop)
    \/ \E force \in BOOLEAN, fadeout \in Fades \ {0} : CancelAll(force, fadeout)
    \/ autodelete
    \/ \E finished \in SUBSET Sources : Process(finished)

\* The host hands a Source the Object holds already to play() once more.
NextAlias ==
    \/ Next
    \/ \E name \in Names, source \in Sources : PlayNamedAgain(name, source)
    \/ \E index \in Indices, source \in Sources : PlayIndexedAgain(index, source)

Spec == Init /\ [][Next]_vars

SpecAlias == Init /\ [][NextAlias]_vars

\* The audio callback keeps being called.
SpecLive == Init /\ [][Next]_vars /\ WF_vars(\E finished \in SUBSET Sources : Process(finished))

\* ------------------------------------------------------------------------
\* The audio lock.  Every operation as the sequence of its lock operations,
\* its reads and writes of guarded state, and its calls; two threads, the
\* host's ("api") and the audio callback's ("audio").
\* AudioLocker (locker.h) is not part of the sources at hand: its constructor
\* takes the audio lock, its destructor (at the end of the scope) releases it.
\* ------------------------------------------------------------------------
Threads == {"api", "audio"}

\* What the audio lock guards.
Guarded == {"pose", "maps", "source", "dead", "objects"}

Ins(kind, arg) == [kind |-> kind, arg |-> arg]

LockIns == Ins("lock", "-")
UnlockIns == Ins("unlock", "-")

\* Object::update, set_position, set_velocity, set_direction
SetPoseCode == <<LockIns, Ins("write", "pose"), UnlockIns>>

\* Object::play
PlayCode == <<LockIns, Ins("write", "maps"), UnlockIns>>

\* Object::playing, Object::active
QueryCode == <<LockIns, Ins("read", "maps"), UnlockIns>>

\* Object::fade_out
FadeOutCode == <<LockIns, Ins("read", "maps"), Ins("write", "source"), UnlockIns>>

\* Object::cancel
CancelCode ==
    <<LockIns, Ins("read", "maps"), Ins("read", "source"), Ins("write", "source"),
      Ins("write", "maps"), UnlockIns>>

\* Object::get_loop
GetLoopCode == <<LockIns, Ins("read", "maps"), Ins("read", "source"), UnlockIns>>

\* Object::set_loop
SetLoopCode == <<LockIns, Ins("read", "maps"), Ins("write", "source"), UnlockIns>>

\* _cancel_all: no AudioLocker of its own
CancelAllLoopCode ==
    <<Ins("read", "maps"), Ins("read", "source"), Ins("write", "source"),
      Ins("write", "maps")>>

\* Object::cancel_all: AudioLocker l; _cancel_all(indexed); _cancel_all(named);
CancelAllCode ==
    <<LockIns, Ins("call", "_cancel_all"), Ins("call", "_cancel_all"), UnlockIns>>

\* Object::~Object: if (dead) return; AudioLocker l; cancel_all();
\* context->delete_object(this);
DtorCode ==
    <<Ins("if_dead_return", "dead"), LockIns, Ins("call", "cancel_all"),
      Ins("call", "delete_object"), UnlockIns>>

\* Object::autodelete: AudioLocker l; cancel_all(); dead = true;
AutodeleteCode ==
    <<LockIns, Ins("call", "cancel_all"), Ins("write", "dead"), UnlockIns>>

\* Context::delete_object (context.cpp, not at hand): a public operation on
\* the Context's object set, under the lock as all of them are.
DeleteObjectCode == <<LockIns, Ins("write", "objects"), UnlockIns>>

\* The audio callback (Context::process, not at hand): under the lock for its
\* whole duration; mixes every source of the Object and reaps the Object if it
\* is dead and holds no source.
ProcessCode ==
    <<LockIns, Ins("read", "pose"), Ins("read", "maps"), Ins("write", "source"),
      Ins("write", "maps"), Ins("reap", "dead"), UnlockIns>>

Code(op) ==
    CASE op \in {"update", "set_position", "set_velocity", "set_direction"} -> SetPoseCode
      [] op = "play" -> PlayCode
      [] op \in {"playing", "active"} -> QueryCode
      [] op = "fade_out" -> FadeOutCode
      [] op = "cancel" -> CancelCode
      [] op = "get_loop" -> GetLoopCode
      [] op = "set_loop" -> SetLoopCode
      [] op = "_cancel_all" -> CancelAllLoopCode
      [] op = "cancel_all" -> CancelAllCode
      [] op = "~Object" -> DtorCode
      [] op = "autodelete" -> AutodeleteCode
      [] op = "delete_object" -> DeleteObjectCode
      [] op = "process" -> ProcessCode

\* The Object's public operations.
PublicOps ==
    {"update", "set_position", "set_velocity", "set_direction", "play", "playing",
     "fade_out", "cancel", "get_loop", "set_loop", "cancel_all", "active",
     "autodelete", "~Object"}

Frame(op) == [op |-> op, pc |-> 1]

Top(t) == stack[t][Len(stack[t])]

\* Thread t is inside a call, about to execute an instruction of its top frame.
Running(t) == stack[t] # <<>> /\ Top(t).pc <= Len(Code(Top(t).op))

Current(t) == Code(Top(t).op)[Top(t).pc]

Advance(t) == [stack EXCEPT ![t][Len(stack[t])].pc = @ + 1]

Push(t, op) == [Advance(t) EXCEPT ![t] = Append(@, Frame(op))]

Pop(t) == [stack EXCEPT ![t] = SubSeq(@, 1, Len(@) - 1)]

Holds(t) == lock.owner = t

\* Thread t is at the constructor of an AudioLocker while it holds the lock.
WaitsForItself(t) == Running(t) /\ Current(t).kind = "lock" /\ Holds(t)

Accessed(t, kind, field) ==
    [thread |-> t, kind |-> kind, field |-> field, locked |-> Holds(t)]

\* The host calls an operation of the Object (none after autodelete(): the
\* Object is the Context's to delete); the audio device calls the callback.
Start(t, op) ==
    /\ stack[t] = <<>>
    /\ in_context
    /\ IF t = "api" THEN op \in PublicOps /\ ~dead ELSE op = "process"
    /\ stack' = [stack EXCEPT ![t] = <<Frame(op)>>]
    /\ UNCHANGED <<fftVars, objVars, dead, in_context, lock_recursive, lock, access>>

\* AudioLocker l: the thread gets the lock if it is free, or if it holds it
\* and the lock is recursive; otherwise it waits.
Lock(t) ==
    /\ Running(t) /\ Current(t).kind = "lock"
    /\ \/ lock.owner = "none" /\ lock' = [owner |-> t, depth |-> 1]
       \/ Holds(t) /\ lock_recursive /\ lock' = [lock EXCEPT !.depth = @ + 1]
    /\ stack' = Advance(t)
    /\ UNCHANGED <<fftVars, objVars, dead, in_context, lock_recursive, access>>

\* ~AudioLocker
Unlock(t) ==
    /\ Running(t) /\ Current(t).kind = "unlock"
    /\ lock' = IF lock.depth = 1 THEN [owner |-> "none", depth |-> 0]
               ELSE [lock EXCEPT !.depth = @ - 1]
    /\ stack' = Advance(t)
    /\ UNCHANGED <<fftVars, objVars, dead, in_context, lock_recursive, access>>

\* A read or a write of guarded state.
Access(t) ==
    /\ Running(t) /\ Current(t).kind \in {"read", "write"}
    /\ access' = Accessed(t, Current(t).kind, Current(t).arg)
    /\ dead' = IF Current(t) = Ins("write", "dead") THEN TRUE ELSE dead
    /\ in_context' = IF Current(t) = Ins("write", "objects") THEN FALSE ELSE in_context
    /\ stack' = Advance(t)
    /\ UNCHANGED <<fftVars, objVars, lock_recursive, lock>>

\* A call of another operation.
CallOp(t) ==
    /\ Running(t) /\ Current(t).kind = "call"
    /\ stack' = Push(t, Current(t).arg)
    /\ UNCHANGED <<fftVars, objVars, dead, in_context, lock_recursive, lock, access>>

\* ~Object's first statement: if (dead) return;  A dead Object is deleted by
\* the callback only, and is gone once its destructor returns.
IfDeadReturn(t) ==
    /\ Running(t) /\ Current(t).kind = "if_dead_return"
    /\ access' = Accessed(t, "read", "dead")
    /\ IF dead
       THEN stack' = Pop(t) /\ in_context' = FALSE
       ELSE stack' = Advance(t) /\ in_context' = in_context
    /\ UNCHANGED <<fftVars, objVars, dead, lock_recursive, lock>>

\* The callback's look at a dead Object: it holds no source any more (delete
\* it) or it does (leave it).
Reap(t, empty) ==
    /\ Running(t) /\ Current(t).kind = "reap"
    /\ access' = Accessed(t, "read", "dead")
    /\ stack' = IF dead /\ empty THEN Push(t, "~Object") ELSE Advance(t)
    /\ UNCHANGED <<fftVars, objVars, dead, in_context, lock_recursive, lock>>

\* The end of a function body.
Return(t) ==
    /\ stack[t] # <<>> /\ ~Running(t)
    /\ stack' = Pop(t)
    /\ UNCHANGED <<fftVars, objVars, dead, in_context, lock_recursive, lock, access>>

NextLock ==
    \/ \E t \in Threads, op \in PublicOps \cup {"process"} : Start(t, op)
    \/ \E t \in Threads : Lock(t)
    \/ \E t \in Threads : Unlock(t)
    \/ \E t \in Threads : Access(t)
    \/ \E t \in Threads : CallOp(t)
    \/ \E t \in Threads : IfDeadReturn(t)
    \/ \E t \in Threads, empty \in BOOLEAN : Reap(t, empty)
    \/ \E t \in Threads : Return(t)

\* The lock of the specification is not recursive; the one of a platform may be.
InitLockKinds == InitObject /\ InitLock /\ lock_recursive \in BOOLEAN /\ InitNoFFT

SpecLock == InitLockKinds /\ [][NextLock]_vars

\* C4: every read and every write of the Object's pose, of its source maps,
\* of a source's state and of the dead flag is made by a thread that holds
\* the audio lock.
C4_LockedAccess == access.field \in Guarded => access.locked

\* C8: with a lock that is not recursive, no thread ever waits for the lock
\* while it holds the lock itself (so that every operation returns).
C8_NoSelfDeadlock == ~lock_recursive => \A t \in Threads : ~WaitsForItself(t)

\* ------------------------------------------------------------------------
\* fft_context<BITS, float> (sse_fft_context.h)
\* ------------------------------------------------------------------------
\* The smallest BITS the class can be instantiated with: its member next is
\* sse_danielson_lanczos<SSE_N / 2, float>, and SSE_N / 2 >= 1 needs N >= 8.
MinBits == 3

SSE_DIV == 4

RECURSIVE Pow2(_)
Pow2(n) == IF n = 0 THEN 1 ELSE 2 * Pow2(n - 1)

\* swap(data[i], data[j]) of an unguarded scramble.
scramble_swap_always(data, i, j) ==
    [data EXCEPT ![i] = data[j], ![j] = data[i]]

\* if (i > j) swap(data[i], data[j]);
scramble_swap(data, i, j) ==
    IF i > j THEN [data EXCEPT ![i] = data[j], ![j] = data[i]] ELSE data

\* while (j >= m && m >= 2) { j -= m; m >>= 1; }  j += m;
RECURSIVE scramble_next(_, _)
scramble_next(j, m) ==
    IF j >= m /\ m >= 2 THEN scramble_next(j - m, m \div 2) ELSE j + m

\* scramble(), from the iteration with counter i on: [data, oob], oob telling
\* that a swap used an index outside [0, N).
RECURSIVE scramble(_, _, _, _, _)
scramble(data, i, j, N, oob) ==
    IF i >= N THEN [data |-> data, oob |-> oob]
    ELSE IF i > j /\ (j < 0 \/ j >= N)
         THEN scramble(data, i + 1, scramble_next(j, N \div 2), N, TRUE)
         ELSE scramble(scramble_swap(data, i, j), i + 1, scramble_next(j, N \div 2), N, oob)

\* std::complex<T>
Complex(re, im) == [re |-> re, im |-> im]
CAdd(a, b) == Complex(a.re + b.re, a.im + b.im)
CSub(a, b) == Complex(a.re - b.re, a.im - b.im)
CMul(a, b) == Complex(a.re * b.re - a.im * b.im, a.re * b.im + a.im * b.re)

\* danielson_lanczos<2, T>::apply<SIGN> (fft_context.h, not at hand; the pass
\* of the specification, 4.1): the one butterfly has the twiddle w = 1.
danielson_lanczos_2(x0, x1) == <<CAdd(x0, x1), CSub(x0, x1)>>

\* danielson_lanczos<4, T>::apply<SIGN>: the two halves, then the butterflies
\* with w = 1 and w = exp(-2 pi i SIGN / 4) = -i SIGN (exact arithmetic).
danielson_lanczos_4(d, SIGN) ==
    LET lo == danielson_lanczos_2(d[1], d[2])
        hi == danielson_lanczos_2(d[3], d[4])
        t0 == hi[1]
        t1 == CMul(hi[2], Complex(0, -SIGN))
    IN  <<CAdd(lo[1], t0), CAdd(lo[2], t1), CSub(lo[1], t0), CSub(lo[2], t1)>>

\* sse_danielson_lanczos<1, T>::apply<SIGN>(data_re, data_im), with the
\* vectors as the sequences of their lanes: [re, im] as written back.
sse_danielson_lanczos_1(data_re, data_im, SIGN) ==
    LET re == data_re                \* _mm_storeu_ps(re, *data_re);
        im == data_re                \* _mm_storeu_ps(im, *data_re);
        data == [i \in 1..SSE_DIV |-> Complex(re[i], im[i])]
        out == danielson_lanczos_4(data, SIGN)
    IN  [re |-> [i \in 1..SSE_DIV |-> out[i].re],
         im |-> [i \in 1..SSE_DIV |-> out[i].im]]

\* The values given to scramble(): N distinct ones in N rotations, and N - 1
\* equal ones with one that differs.
DataInputs(N) ==
    {[i \in 0..N - 1 |-> (i + r) % N] : r \in 0..N - 1}
        \cup {[i \in 0..N - 1 |-> IF i = a THEN 1 ELSE 0] : a \in 0..N - 1}

Lanes == [1..SSE_DIV -> {0, 1}]

InitFFT ==
    /\ InitObject /\ InitLock /\ lock_recursive = TRUE
    /\ \/ /\ \E bits \in MinBits..MaxBits : \E d \in DataInputs(Pow2(bits)) :
                 fft = [pc |-> "input", bits |-> bits, input |-> d, data |-> d, oob |-> FALSE]
          /\ sse = NoSSE
       \/ /\ fft = NoFFT
          /\ \E sign \in {-1, 1}, r \in Lanes, i \in Lanes :
                 sse = [pc |-> "input", sign |-> sign, re_in |-> r, im_in |-> i,
                        re |-> r, im |-> i]

\* scramble(), once on the input and once more on its result
Scramble ==
    /\ fft.pc \in {"input", "scrambled"}
    /\ LET r == scramble(fft.data, 0, 0, Pow2(fft.bits), fft.oob)
       IN  fft' = [fft EXCEPT !.data = r.data, !.oob = r.oob,
                              !.pc = IF fft.pc = "input" THEN "scrambled" ELSE "twice"]
    /\ UNCHANGED <<objVars, dead, in_context, lockVars, sse>>

\* next.apply<SIGN>(data_re, data_im) at the lane-internal level
SseApply ==
    /\ sse.pc = "input"
    /\ LET r == sse_danielson_lanczos_1(sse.re, sse.im, sse.sign)
       IN  sse' = [sse EXCEPT !.re = r.re, !.im = r.im, !.pc = "done"]
    /\ UNCHANGED <<objVars, dead, in_context, lockVars, fft>>

NextFFT == Scramble \/ SseApply

SpecFFT == InitFFT /\ [][NextFFT]_vars

\* rev(i): i with its bits-bit binary representation reversed.
RECURSIVE rev(_, _)
rev(i, bits) ==
    IF bits = 0 THEN 0 ELSE (i % 2) * Pow2(bits - 1) + rev(i \div 2, bits - 1)

Count_of(data, v) == Cardinality({i \in DOMAIN data : data[i] = v})

\* C9: scramble() is the bit-reversal permutation of the N = 2^BITS slots:
\* afterwards data[i] is the value that was in data[rev(i)]; the slots are
\* the same N, each value is there as often as before, no swap used an index
\* outside [0, N), and a second scramble() restores the original order.
C9_Scramble ==
    LET N == Pow2(fft.bits)
    IN  /\ fft.pc \in {"scrambled", "twice"} =>
               /\ DOMAIN fft.data = 0..N - 1
               /\ ~fft.oob
               /\ \A v \in 0..N - 1 : Count_of(fft.data, v) = Count_of(fft.input, v)
        /\ fft.pc = "scrambled" =>
               \A i \in 0..N - 1 : fft.data[i] = fft.input[rev(i, fft.bits)]
        /\ fft.pc = "twice" => fft.data = fft.input

\* scramble() ran twice on 2^MaxBits distinct values, the first run having
\* moved the value of slot 1 to slot N / 2.
C9_Witness ==
    /\ fft.pc = "twice"
    /\ fft.bits = MaxBits
    /\ \A i \in DOMAIN fft.input : fft.input[i] = i
    /\ rev(1, fft.bits) = Pow2(fft.bits - 1)

\* C10: the vectors sse_danielson_lanczos<1, T>::apply writes back are the
\* real and the imaginary parts of danielson_lanczos<4, T>::apply on the four
\* complex values (re[i], im[i]) of the lanes of *data_re and *data_im.
C10_SseIsScalar ==
    sse.pc = "done" =>
        LET out == danielson_lanczos_4(
                       [i \in 1..SSE_DIV |-> Complex(sse.re_in[i], sse.im_in[i])], sse.sign)
        IN  /\ sse.re = [i \in 1..SSE_DIV |-> out[i].re]
            /\ sse.im = [i \in 1..SSE_DIV |-> out[i].im]

\* ------------------------------------------------------------------------
\* Properties of the Object's operations
\* ------------------------------------------------------------------------
\* The range of the key of call c, in the map it names.
KeyRange(c) ==
    IF c.map = "named" THEN named_sources[c.name] ELSE indexed_sources[c.index]

MapsUnchanged ==
    named_sources' = named_sources /\ indexed_sources' = indexed_sources

\* The maps are unchanged but for the range of the key of call c.
OtherKeysUnchanged(c) ==
    IF c.map = "named"
    THEN /\ indexed_sources' = indexed_sources
         /\ \A k \in Names \ {c.name} : named_sources'[k] = named_sources[k]
    ELSE /\ named_sources' = named_sources
         /\ \A k \in Indices \ {c.index} : indexed_sources'[k] = indexed_sources[k]

SetLoopStep ==
    last'.op = "set_loop" =>
        LET seq == KeyRange(last')
        IN  /\ MapsUnchanged
            /\ seq # <<>> => src'[seq[1]].loop = last'.flag
            /\ \A i \in 2..Len(seq) : src'[seq[i]].loop = FALSE
            /\ Cardinality({i \in 1..Len(seq) : src'[seq[i]].loop}) <= 1
            /\ \A s \in Sources \ Range(seq) : src'[s].loop = src[s].loop

\* C1: after set_loop(key, flag) the first source of the key's range has
\* loop = flag and every other source of the range has loop = false, so at
\* most one source under the key loops; the maps are unchanged and every
\* source that is not under the key keeps its loop flag.
C1_SetLoop == [][SetLoopStep]_vars

\* set_loop(key, true) was called on a key that holds two sources: the first
\* one loops, the second one does not.
C1_Witness ==
    /\ last.op = "set_loop" /\ last.flag
    /\ Len(KeyRange(last)) >= 2
    /\ src[KeyRange(last)[1]].loop
    /\ ~src[KeyRange(last)[2]].loop

CancelNowStep ==
    (last'.op = "cancel" /\ last'.fadeout = 0) =>
        LET seq == KeyRange(last')
        IN  /\ \A s \in Range(seq) : src'[s].st = "destroyed"
            /\ IF last'.map = "named"
               THEN /\ named_sources'[last'.name] = <<>>
                    /\ ~playing(named_sources', last'.name)
               ELSE /\ indexed_sources'[last'.index] = <<>>
                    /\ ~playing(indexed_sources', last'.index)
            /\ OtherKeysUnchanged(last')
            /\ \A s \in Sources \ Range(seq) : src'[s] = src[s]

\* C2: cancel(key, 0) destroys every source of the key's range and removes it
\* from the map, so that playing(key) is false afterwards; the ranges of all
\* other keys and the other map are unchanged, and so are their sources.
C2_CancelNow == [][CancelNowStep]_vars

\* cancel(key, 0) was called on a key that held two sources, both destroyed
\* now.
C2_Witness ==
    /\ last.op = "cancel" /\ last.fadeout = 0
    /\ KeyRange(last) = <<>>
    /\ Cardinality({s \in Sources : src[s].st = "destroyed"}) >= 2

CancelFadeStep ==
    (last'.op = "cancel" /\ last'.fadeout > 0) =>
        LET seq == KeyRange(last')
        IN  /\ MapsUnchanged
            /\ \A s \in Range(seq) :
                   IF src[s].loop
                   THEN src'[s] = [src[s] EXCEPT !.fadeout = last'.fadeout,
                                                 !.fadeout_total = last'.fadeout]
                   ELSE src'[s] = src[s]
            /\ \A s \in Sources \ Range(seq) : src'[s] = src[s]

\* C3: cancel(key, t) with t > 0 removes nothing from the maps and starts a
\* fade-out of length t on exactly the sources of the key's range that loop;
\* the other sources of the range and every source elsewhere are unchanged.
C3_CancelFade == [][CancelFadeStep]_vars

\* cancel(key, t), t > 0, was called on a key that holds a looping source (now
\* fading out over t) and a non-looping one (not fading).
C3_Witness ==
    /\ last.op = "cancel" /\ last.fadeout > 0
    /\ \E s \in Range(KeyRange(last)) :
           src[s].loop /\ src[s].fadeout = last.fadeout
    /\ \E s \in Range(KeyRange(last)) : ~src[s].loop /\ ~Fading(src[s])

AutodeleteStep ==
    last'.op = "autodelete" =>
        /\ dead'
        /\ MapsUnchanged
        /\ \A s \in Sources :
               IF s \in AllStored /\ src[s].loop
               THEN /\ Fading(src'[s])
                    /\ src'[s].fadeout = src'[s].fadeout_total
                    /\ src'[s].loop /\ src'[s].st = "alive"
               ELSE src'[s] = src[s]

ReapStep ==
    last'.op = "process" => (in_context' <=> ~(dead /\ AllStored' = {}))

C6_StoredAlive == \A s \in AllStored : src[s].st = "alive"

\* C6, as the code has it: as long as no Source was handed to play() a second
\* time, every Source pointer in the maps refers to a Source that was not
\* destroyed.
C6_OwnedAlive == ~aliased => \A s \in AllStored : src[s].st = "alive"

\* Sources were destroyed by a cancel or a cancel_all while others stay in the
\* maps, and no Source was handed over twice.
C6_Witness ==
    /\ ~aliased
    /\ last.op \in {"cancel", "cancel_all"}
    /\ \E s \in Sources : src[s].st = "destroyed"
    /\ AllStored # {}

\* cancel(key, t), t > 0, was just called on a key whose only source is s, a
\* looping one.
CancelledLoop(s) ==
    /\ last.op = "cancel" /\ last.fadeout > 0
    /\ KeyRange(last) = <<s>>
    /\ src[s].loop

Reaped(s) == s \notin AllStored /\ src[s].st = "destroyed"

\* A callback does not raise the gain of a source it leaves in the maps
\* (gain = fadeout / fadeout_total while fading out, 1 otherwise), and a
\* looping source that fades out is left in the maps exactly as long as more
\* than one block of its fade-out remains.
FadeStep ==
    last'.op = "process" =>
        \A s \in AllStored :
            /\ (s \in AllStored' /\ Fading(src[s])) =>
                   /\ Fading(src'[s])
                   /\ src'[s].fadeout * src[s].fadeout_total
                          <= src[s].fadeout * src'[s].fadeout_total
                   /\ src'[s].fadeout < src[s].fadeout
            /\ (Fading(src[s]) /\ src[s].loop) =>
                   (s \in AllStored' <=> src[s].fadeout > 1)

\* playing(key) turns true by a play() only.
PlayingStep ==
    /\ \A k \in Names :
           (~playing(named_sources, k) /\ playing(named_sources', k)) => last'.op = "play"
    /\ \A k \in Indices :
           (~playing(indexed_sources, k) /\ playing(indexed_sources', k)) => last'.op = "play"

\* A source that fades out keeps fading out, in the maps, until it is
\* destroyed and out of the maps.
KeepsFading ==
    \A s \in AllStored :
        Fading(src[s]) => \/ s \in AllStored' /\ Fading(src'[s])
                          \/ Reaped(s)'

\* C7: after cancel(key, t), t > 0, on a key whose only source loops, while
\* the callback keeps running: the source is in the mix and fades out; it
\* keeps fading out, with a gain that no callback raises, until it is reaped
\* (in the t-th callback, if its fade is not started anew); the time comes
\* when no source in the maps fades out, so the source was reaped by then;
\* and playing(key) is true again after a play() only.
C7_FadeThenReaped ==
    /\ [](\A s \in Sources : CancelledLoop(s) => s \in AllStored /\ Fading(src[s]))
    /\ [][KeepsFading /\ FadeStep /\ PlayingStep]_vars
    /\ (\E s \in Sources : CancelledLoop(s)) ~> (\A s \in AllStored : ~Fading(src[s]))

\* The callback that ended the fade-out of a looping source reaped it, and
\* no key plays anything.
C7_Witness ==
    /\ last.op = "process" /\ last.flag
    /\ \E s \in Sources : Reaped(s)
    /\ \A k \in Names : ~playing(named_sources, k)
    /\ \A k \in Indices : ~playing(indexed_sources, k)

====
